---- MODULE Spec2Model ----
(***************************************************************************)
(* Model of daily_briefing.py: three source adapters, the history file     *)
(* (seen_ids.json), the dedup filter of main(), the digest built by        *)
(* send_discord_digest and the order in which main() performs them.        *)
(*                                                                         *)
(* One run of main() is a sequence of steps (pc); the external world (the  *)
(* environment variable, the three sources, the webhook, the iteration     *)
(* order of a Python set) is chosen nondeterministically at the step that  *)
(* consults it.  NextRun starts another invocation of the script on the    *)
(* history file the previous one left behind.                              *)
(***************************************************************************)
EXTENDS Integers, Sequences, FiniteSets, TLC

VARIABLES
    WEBHOOK_URL,   \* os.environ.get("DISCORD_WEBHOOK_URL") of this process
    historyFile,   \* content of seen_ids.json, or NoFile
    pc,            \* position of main()
    history,       \* main: history (the loaded set)
    papers,        \* value returned by get_huggingface_daily_papers()
    models,        \* value returned by get_trending_models()
    news,          \* value returned by get_lab_news()
    candidates,    \* main: candidates
    new_items,     \* main: new_items
    posts,         \* payloads handed to requests.post in this run
    post_outcome,  \* what requests.post did in this run
    trace,         \* external operations performed by this run, in order
    printed,       \* lines printed by main() in this run
    replay,        \* adapter outputs of the previous run when the sources are unchanged
    file_before,   \* content of seen_ids.json when this run started
    feed_i,        \* get_lab_news: index of the feed the loop is at
    listing,       \* SpecModels: the candidates list_models yields
    result         \* SpecModels: value returned for listing

vars == <<WEBHOOK_URL, historyFile, pc, history, papers, models, news, candidates,
          new_items, posts, post_outcome, trace, printed, replay, file_before,
          feed_i, listing, result>>

mainVars == <<WEBHOOK_URL, historyFile, pc, history, papers, models, news, candidates,
              new_items, posts, post_outcome, trace, printed, replay, file_before,
              feed_i>>

-----------------------------------------------------------------------------
(* Bounds of the model *)

MaxPapers == 1        \* longest papers response body
MaxListing == 1       \* longest model listing in a run of main()
MaxCandidates == 6    \* longest model listing given to get_trending_models alone
MaxSlack == 1         \* an initial history file holds 0 or HistoryCap-MaxSlack..HistoryCap ids

(* Program constants *)

HistoryCap == 1000    \* save_history: [-1000:]
TopPapers == 5        \* get_huggingface_daily_papers: data[:5]
TopModels == 5        \* get_trending_models: len(new_models) >= 5
ModelDays == 2        \* get_trending_models: .days < 2
NewsDays == 1         \* get_lab_news: .days < 1
ListLimit == 20       \* get_trending_models: limit=20

None == "None"

Min(a, b) == IF a <= b THEN a ELSE b

(***************************************************************************)
(* SeqsUpTo(S, n): the sequences over S of length at most n.               *)
(***************************************************************************)
SeqsUpTo(S, n) == UNION {[1..k -> S] : k \in 0..n}

-----------------------------------------------------------------------------
(* Identifiers *)

PaperIds == {"A", "B"}
PaperTitles == {"T"}
ModelNames == <<"M1", "M2", "M3", "M4", "M5", "M6", "M7", "M8", "M9">>
NewsLinks == {"N"}
NewsTitles == {"t"}
ModelLikes == {12}

Ids == PaperIds \cup {ModelNames[i] : i \in 1..MaxListing} \cup NewsLinks

(***************************************************************************)
(* A history is a set of id strings.  The ids that no source of the model  *)
(* returns are interchangeable, so a history keeps them as a count:        *)
(* ids is the part of the set within Ids, others the number of other ids.  *)
(***************************************************************************)
Size(h) == Cardinality(h.ids) + h.others

EmptyHistory == [ids |-> {}, others |-> 0]

(* seen_ids.json: whether it exists and the set it holds. *)
NoFile == [exists |-> FALSE, content |-> EmptyHistory]
File(h) == [exists |-> TRUE, content |-> h]


-----------------------------------------------------------------------------
(* get_huggingface_daily_papers *)

PaperRecords ==
    {[paper |-> [id |-> p, title |-> t]] : p \in PaperIds, t \in PaperTitles}
    \cup {[title |-> t] : t \in PaperTitles}          \* a record without "paper"

(* What requests.get and response.json() can do. *)
PaperResponses ==
    {[exception |-> "ConnectionError", status_code |-> 0, data |-> <<>>],
     [exception |-> None, status_code |-> 404, data |-> <<>>],
     [exception |-> "JSONDecodeError", status_code |-> 200, data |-> <<>>]}
    \cup {[exception |-> None, status_code |-> 200, data |-> d] :
             d \in SeqsUpTo(PaperRecords, MaxPapers)}

PaperItem(p) ==
    [id |-> p.id, title |-> p.title,
     link |-> <<"https://huggingface.co/papers/", p.id>>, type |-> "Paper"]

get_huggingface_daily_papers(response) ==
    IF response.exception = "ConnectionError" THEN <<>>          \* except: return []
    ELSE IF response.status_code # 200 THEN <<>>
    ELSE IF response.exception = "JSONDecodeError" THEN <<>>     \* except: return []
    ELSE LET data == response.data
             top  == SubSeq(data, 1, Min(TopPapers, Len(data)))   \* data[:5]
         IN  IF \E i \in 1..Len(top) : "paper" \notin DOMAIN top[i]
             THEN <<>>                                           \* KeyError, except: return []
             ELSE [i \in 1..Len(top) |-> PaperItem(top[i].paper)]

-----------------------------------------------------------------------------
(* get_trending_models *)

(* lastModified of a candidate: <<>> for None, or <<h>> with h the whole
   hours from it to now. *)
NoDate == <<>>
ModelAges == {-1, 47, 48}
LastModifieds == {NoDate} \cup {<<h>> : h \in ModelAges}

ModelInfo(i, lm) ==
    [modelId |-> ModelNames[i], lastModified |-> lm,
     likes |-> CHOOSE l \in ModelLikes : TRUE]

(* The listings of n candidates: distinct models in popularity order. *)
Listings(n) ==
    UNION {{[i \in 1..k |-> ModelInfo(i, f[i])] : f \in [1..k -> LastModifieds]}
           : k \in 0..Min(n, ListLimit)}

(* timedelta.days of a difference of h whole hours (floor). *)
Days(h) == h \div 24

ModelItem(m) ==
    [id |-> m.modelId, title |-> m.modelId,
     link |-> <<"https://huggingface.co/", m.modelId>>,
     likes |-> m.likes, type |-> "Model"]

IsRecent(m) ==
    m.lastModified # NoDate /\ Days(m.lastModified[1]) < ModelDays

RECURSIVE ModelsLoopNoBreak(_, _, _)
ModelsLoopNoBreak(ms, i, new_models) ==
    IF i > Len(ms) THEN new_models
    ELSE IF IsRecent(ms[i])
         THEN ModelsLoopNoBreak(ms, i + 1, Append(new_models, ModelItem(ms[i])))
         ELSE ModelsLoopNoBreak(ms, i + 1, new_models)

(* for m in models: ... if len(new_models) >= 5: break *)
RECURSIVE ModelsLoop(_, _, _)
ModelsLoop(ms, i, new_models) ==
    IF i > Len(ms) THEN new_models
    ELSE IF IsRecent(ms[i])
         THEN LET appended == Append(new_models, ModelItem(ms[i]))
              IN  IF Len(appended) >= TopModels THEN appended
                  ELSE ModelsLoop(ms, i + 1, appended)
         ELSE ModelsLoop(ms, i + 1, new_models)

get_trending_models(ms) == ModelsLoop(ms, 1, <<>>)

-----------------------------------------------------------------------------
(* get_lab_news *)

feeds ==
    << <<"OpenAI", "https://openai.com/index.xml">>,
       <<"Anthropic", "https://www.anthropic.com/feed">>,
       <<"DeepMind", "https://deepmind.google/blog/rss.xml">>,
       <<"Hugging Face", "https://huggingface.co/blog/feed.xml">> >>

(* published of an entry as the whole hours from it to now. *)
NewsAges == {23, 24}

Entries == [link : NewsLinks, title : NewsTitles, published : NewsAges]

Fresh == CHOOSE e \in Entries : e.published = 23
Stale == CHOOSE e \in Entries : e.published = 24

(* What feedparser.parse(url) and the reading of entries[0] can do. *)
FeedOutcomes ==
    {[error |-> TRUE, entries |-> <<>>]}
    \cup {[error |-> FALSE, entries |-> es] :
             es \in {<<>>, <<Stale, Fresh>>} \cup {<<e>> : e \in Entries}}

NewsItem(source, entry) ==
    [id |-> entry.link, title |-> <<source, ": ", entry.title>>,
     link |-> entry.link, type |-> "News"]

(* The body of "for source, url in feeds": what one feed adds to news. *)
FeedItems(i, feed) ==
    IF feed.error THEN <<>>                                      \* except: continue
    ELSE IF feed.entries = <<>> THEN <<>>                        \* continue
    ELSE LET entry == feed.entries[1]
         IN  IF Days(entry.published) < NewsDays
             THEN <<NewsItem(feeds[i][1], entry)>>
             ELSE <<>>

-----------------------------------------------------------------------------
(* load_history, save_history *)

load_history(file) == IF file.exists THEN file.content ELSE EmptyHistory

ItemIds(items) == {items[i].id : i \in 1..Len(items)}

(* old_history.union(new_ids); the new ids are all within Ids. *)
Union(old_history, new_ids) ==
    [ids |-> old_history.ids \cup new_ids, others |-> old_history.others]

(***************************************************************************)
(* list(s)[-1000:]: the last 1000 elements of the list of a set.  The      *)
(* order of that list is the iteration order of a set of strings, which    *)
(* depends on the hash seed of the process, so every choice of the         *)
(* elements cut off is possible.                                           *)
(***************************************************************************)
LastOf(s, n) ==
    {[ids |-> kept, others |-> Min(n, Size(s)) - Cardinality(kept)] :
        kept \in {x \in SUBSET s.ids :
                     /\ Cardinality(x) + s.others >= Min(n, Size(s))
                     /\ Cardinality(x) <= Min(n, Size(s))}}

WrittenUncapped(new_ids, old_history) == {Union(old_history, new_ids)}

WrittenNewOnly(new_ids, old_history) ==
    LastOf([ids |-> new_ids, others |-> 0], HistoryCap)

(* The contents save_history can write. *)
Written(new_ids, old_history) == LastOf(Union(old_history, new_ids), HistoryCap)

-----------------------------------------------------------------------------
(* send_discord_digest *)

Comprehension(items, type) == SelectSeq(items, LAMBDA i : i.type = type)

Bullet(i) == [title |-> i.title, link |-> i.link]                 \* "• **[title](link)**"
BulletLikes(m) == [title |-> m.title, link |-> m.link, likes |-> m.likes]

Lines(items) == [k \in 1..Len(items) |-> Bullet(items[k])]
LinesLikes(items) == [k \in 1..Len(items) |-> BulletLikes(items[k])]

Field(name, value) == [name |-> name, value |-> value, inline |-> FALSE]

FieldsPapersFirst(items) ==
    LET p == Comprehension(items, "Paper")
        m == Comprehension(items, "Model")
        n == Comprehension(items, "News")
    IN  (IF p # <<>> THEN <<Field("Daily Papers", Lines(p))>> ELSE <<>>)
        \o (IF m # <<>> THEN <<Field("Trending Models", LinesLikes(m))>> ELSE <<>>)
        \o (IF n # <<>> THEN <<Field("Industry News", Lines(n))>> ELSE <<>>)

Fields(items) ==
    LET p == Comprehension(items, "Paper")
        m == Comprehension(items, "Model")
        n == Comprehension(items, "News")
    IN  (IF n # <<>> THEN <<Field("Industry News", Lines(n))>> ELSE <<>>)
        \o (IF m # <<>> THEN <<Field("Trending Models", LinesLikes(m))>> ELSE <<>>)
        \o (IF p # <<>> THEN <<Field("Daily Papers", Lines(p))>> ELSE <<>>)

Payload(items) ==
    [embeds |-> <<[description |-> "Here are the top trending updates for today.",
                   color |-> 3447003,
                   fields |-> Fields(items),
                   footer |-> [text |-> "Sources: Hugging Face & Corporate Blogs"]]>>]

(* What requests.post can do: a 2xx answer, an error answer, an exception. *)
PostOutcomes == {"ok", "rejected", "ConnectionError"}


(* if not items: return ... requests.post(WEBHOOK_URL, json=payload) *)
send_discord_digest(url, items) ==
    IF items = <<>> THEN <<>> ELSE <<[url |-> url, json |-> Payload(items)]>>

-----------------------------------------------------------------------------
(* main *)

Webhooks == {None, "", "https://discord.com/api/webhooks/1"}

ConfiguredAlways(url) == TRUE

(* not WEBHOOK_URL is false *)
Configured(url) == url # None /\ url # ""

(* get_huggingface_daily_papers() + get_trending_models() + get_lab_news() *)
Candidates(p, m, n) == p \o m \o n

NewItemsUnfiltered(cands, seen) == cands

(* [item for item in candidates if item['id'] not in history] *)
NewItems(cands, seen) == SelectSeq(cands, LAMBDA item : item.id \notin seen.ids)

NoReplay == [on |-> FALSE, papers |-> <<>>, models |-> <<>>, news |-> <<>>]

InitialFiles ==
    {NoFile} \cup
    {File(h) : h \in {x \in [ids : SUBSET Ids,
                              others : {0} \cup ((HistoryCap - MaxSlack)..HistoryCap)] :
                         Size(x) <= HistoryCap}}

Locals ==
    /\ pc = "main"
    /\ history = EmptyHistory
    /\ papers = <<>>
    /\ models = <<>>
    /\ news = <<>>
    /\ candidates = <<>>
    /\ new_items = <<>>
    /\ posts = <<>>
    /\ post_outcome = None
    /\ trace = <<>>
    /\ printed = <<>>
    /\ feed_i = 1

FreshLocals ==
    /\ pc' = "main"
    /\ history' = EmptyHistory
    /\ papers' = <<>>
    /\ models' = <<>>
    /\ news' = <<>>
    /\ candidates' = <<>>
    /\ new_items' = <<>>
    /\ posts' = <<>>
    /\ post_outcome' = None
    /\ trace' = <<>>
    /\ printed' = <<>>
    /\ feed_i' = 1

Init ==
    /\ WEBHOOK_URL \in Webhooks
    /\ historyFile \in InitialFiles
    /\ file_before = historyFile
    /\ Locals
    /\ replay = NoReplay
    /\ listing = <<>>
    /\ result = <<>>

(* if not WEBHOOK_URL: print(...); return *)
NoWebhook ==
    /\ pc = "main"
    /\ ~Configured(WEBHOOK_URL)
    /\ printed' = Append(printed, "No Webhook URL found.")
    /\ pc' = "returned"
    /\ UNCHANGED <<WEBHOOK_URL, historyFile, history, papers, models, news, candidates,
                   new_items, posts, post_outcome, trace, replay, file_before,
                   feed_i, listing, result>>

(* history = load_history() *)
LoadHistory ==
    /\ pc = "main"
    /\ Configured(WEBHOOK_URL)
    /\ history' = load_history(historyFile)
    /\ trace' = Append(trace, "load_history")
    /\ pc' = "papers"
    /\ UNCHANGED <<WEBHOOK_URL, historyFile, papers, models, news, candidates,
                   new_items, posts, post_outcome, printed, replay, file_before,
                   feed_i, listing, result>>

GetPapers ==
    /\ pc = "papers"
    /\ \E response \in PaperResponses :
          /\ replay.on => get_huggingface_daily_papers(response) = replay.papers
          /\ papers' = get_huggingface_daily_papers(response)
    /\ trace' = Append(trace, "get_huggingface_daily_papers")
    /\ pc' = "models"
    /\ UNCHANGED <<WEBHOOK_URL, historyFile, history, models, news, candidates,
                   new_items, posts, post_outcome, printed, replay, file_before,
                   feed_i, listing, result>>

GetModels ==
    /\ pc = "models"
    /\ \E ms \in Listings(MaxListing) :
          /\ replay.on => get_trending_models(ms) = replay.models
          /\ models' = get_trending_models(ms)
    /\ trace' = Append(trace, "get_trending_models")
    /\ pc' = "news"
    /\ UNCHANGED <<WEBHOOK_URL, historyFile, history, papers, news, candidates,
                   new_items, posts, post_outcome, printed, replay, file_before,
                   feed_i, listing, result>>

(* list_models raises (the hub is unreachable or answers with an error):
   get_trending_models has no try, the exception leaves main. *)
GetModelsRaises ==
    /\ pc = "models"
    /\ ~replay.on
    /\ trace' = Append(trace, "get_trending_models")
    /\ pc' = "raised"
    /\ UNCHANGED <<WEBHOOK_URL, historyFile, history, papers, models, news, candidates,
                   new_items, posts, post_outcome, printed, replay, file_before,
                   feed_i, listing, result>>

(* One iteration of the loop of get_lab_news; the last one returns news. *)
GetLabNews ==
    /\ pc = "news"
    /\ \E feed \in FeedOutcomes :
          /\ replay.on =>
                FeedItems(feed_i, feed) =
                  SelectSeq(replay.news, LAMBDA x : x.title[1] = feeds[feed_i][1])
          /\ news' = news \o FeedItems(feed_i, feed)
    /\ trace' = IF feed_i = 1 THEN Append(trace, "get_lab_news") ELSE trace
    /\ feed_i' = feed_i + 1
    /\ pc' = IF feed_i = Len(feeds) THEN "filter" ELSE "news"
    /\ UNCHANGED <<WEBHOOK_URL, historyFile, history, papers, models, candidates,
                   new_items, posts, post_outcome, printed, replay, file_before,
                   listing, result>>

(* candidates = ...; new_items = [...]; if new_items: *)
Filter ==
    /\ pc = "filter"
    /\ candidates' = Candidates(papers, models, news)
    /\ new_items' = NewItems(candidates', history)
    /\ pc' = IF new_items' # <<>> THEN "send" ELSE "nothing"
    /\ UNCHANGED <<WEBHOOK_URL, historyFile, history, papers, models, news,
                   posts, post_outcome, trace, printed, replay, file_before,
                   feed_i, listing, result>>

(* print(f"Found ..."); send_discord_digest(new_items) *)
SendDigest ==
    /\ pc = "send"
    /\ printed' = Append(printed, "Found new items. Sending digest...")
    /\ posts' = posts \o send_discord_digest(WEBHOOK_URL, new_items)
    /\ trace' = Append(trace, "requests.post")
    /\ \E outcome \in PostOutcomes :
          /\ post_outcome' = outcome
          /\ pc' = IF outcome = "ConnectionError" THEN "raised" ELSE "save"
    /\ UNCHANGED <<WEBHOOK_URL, historyFile, history, papers, models, news, candidates,
                   new_items, replay, file_before, feed_i, listing, result>>

(* new_ids = {...}; save_history(new_ids, history) *)
SaveHistory ==
    /\ pc = "save"
    /\ \E updated \in Written(ItemIds(new_items), history) :
          historyFile' = File(updated)
    /\ trace' = Append(trace, "save_history")
    /\ pc' = "returned"
    /\ UNCHANGED <<WEBHOOK_URL, history, papers, models, news, candidates,
                   new_items, posts, post_outcome, printed, replay, file_before,
                   feed_i, listing, result>>

NoNewItemsSaves ==
    /\ pc = "nothing"
    /\ printed' = Append(printed, "No new items to report.")
    /\ \E updated \in Written(ItemIds(new_items), history) :
          historyFile' = File(updated)
    /\ trace' = Append(trace, "save_history")
    /\ pc' = "returned"
    /\ UNCHANGED <<WEBHOOK_URL, history, papers, models, news, candidates,
                   new_items, posts, post_outcome, replay, file_before,
                   feed_i, listing, result>>

(* else: print("No new items to report.") *)
NoNewItems ==
    /\ pc = "nothing"
    /\ printed' = Append(printed, "No new items to report.")
    /\ pc' = "returned"
    /\ UNCHANGED <<WEBHOOK_URL, historyFile, history, papers, models, news, candidates,
                   new_items, posts, post_outcome, trace, replay, file_before,
                   feed_i, listing, result>>

(***************************************************************************)
(* The script is invoked again (if __name__ == "__main__": main()) on the  *)
(* history file the previous invocation left.  After a run that fetched    *)
(* all three sources and returned, the sources may be unchanged: the       *)
(* adapters then return what they returned in that run.                    *)
(***************************************************************************)
NextRun ==
    /\ pc \in {"returned", "raised"}
    /\ WEBHOOK_URL' \in Webhooks
    /\ file_before' = historyFile
    /\ replay' \in {NoReplay} \cup
                   (IF pc = "returned" /\ Len(trace) >= 4
                    THEN {[on |-> TRUE, papers |-> papers, models |-> models,
                           news |-> news]}
                    ELSE {})
    /\ FreshLocals
    /\ UNCHANGED <<historyFile, listing, result>>

Next ==
    \/ NoWebhook
    \/ LoadHistory
    \/ GetPapers
    \/ GetModels
    \/ GetModelsRaises
    \/ GetLabNews
    \/ Filter
    \/ SendDigest
    \/ SaveHistory
    \/ NoNewItems
    \/ NextRun

Spec == Init /\ [][Next]_vars

-----------------------------------------------------------------------------
(* get_trending_models alone, on every listing of up to MaxCandidates models *)

InitModels ==
    /\ WEBHOOK_URL = None
    /\ historyFile = NoFile
    /\ file_before = NoFile
    /\ Locals
    /\ replay = NoReplay
    /\ listing \in Listings(MaxCandidates)
    /\ result = <<>>

CallTrendingModels ==
    /\ pc = "main"
    /\ result' = get_trending_models(listing)
    /\ pc' = "returned"
    /\ UNCHANGED <<WEBHOOK_URL, historyFile, history, papers, models, news, candidates,
                   new_items, posts, post_outcome, trace, printed, replay, file_before,
                   feed_i, listing>>

NextModels == CallTrendingModels

SpecModels == InitModels /\ [][NextModels]_vars


-----------------------------------------------------------------------------
(* Vocabulary of the properties *)

Ops(t) == {t[i] : i \in DOMAIN t}

Count(t, op) == Cardinality({i \in DOMAIN t : t[i] = op})

(* The elements of seq at the indices in S, in increasing index order. *)
Pick(seq, S) ==
    [k \in 1..Cardinality(S) |->
        seq[CHOOSE i \in S : Cardinality({j \in S : j <= i}) = k]]

Ended == pc \in {"returned", "raised"}

(* main has computed new_items in this run. *)
Filtered == "get_lab_news" \in Ops(trace) /\ pc \notin {"news", "filter"}

Adapters == {"get_huggingface_daily_papers", "get_trending_models", "get_lab_news"}

UnseenIndices == {i \in DOMAIN candidates : candidates[i].id \notin history.ids}

IndicesOfType(items, type) == {i \in DOMAIN items : items[i].type = type}

SectionNames == <<"Industry News", "Trending Models", "Daily Papers">>
SectionTypes == <<"News", "Model", "Paper">>

(* What a section shows of an item. *)
Shown(type, x) ==
    IF type = "Model" THEN <<x.title, x.link, x.likes>> ELSE <<x.title, x.link>>

-----------------------------------------------------------------------------
(* C1: no source adapter raises past its own boundary: a run of main never
   ends with an exception raised by the adapter it called last. *)
C1_AdaptersNeverRaise ==
    pc = "raised" => trace[Len(trace)] \notin Adapters

(* C2: in a run with new items, a publish call that fails (the webhook
   rejects it, or the network call fails) never keeps the run from
   save_history: the run ends with the history file saved. *)
C2_PublishFailureStillSaves ==
    (Ended /\ post_outcome \in {"rejected", "ConnectionError"})
        => "save_history" \in Ops(trace)

(* C3: a run that follows a run which returned, with the same adapter
   outputs and the history file as that run left it, computes no new
   items. *)
C3_SecondRunNothingNew ==
    (replay.on /\ Filtered) => new_items = <<>>

(* C4: the history file written by save_history never holds more than
   1000 entries. *)
C4_HistoryCap ==
    "save_history" \in Ops(trace) => Size(historyFile.content) <= 1000

C4_Witness ==
    /\ pc = "returned"
    /\ "save_history" \in Ops(trace)
    /\ Size(history) + Cardinality(ItemIds(new_items) \ history.ids) > 1000
    /\ Size(historyFile.content) = 1000

(* C5: in a run where no candidate id is new (every candidate id is in the
   loaded history, or there is no candidate), no publish call is made and
   the history file is not written: it is as it was when the run started. *)
C5_NoOpOnEmptyDelta ==
    (Filtered /\ \A i \in DOMAIN candidates : candidates[i].id \in history.ids)
        => /\ posts = <<>>
           /\ "requests.post" \notin Ops(trace)
           /\ "save_history" \notin Ops(trace)
           /\ historyFile = file_before

C5_Witness ==
    /\ pc = "returned"
    /\ Filtered
    /\ Len(candidates) >= 2
    /\ \A i \in DOMAIN candidates : candidates[i].id \in history.ids

(* C6: with the webhook URL absent (unset, or set to the empty string),
   main prints the diagnostic and returns and does nothing else: no adapter
   is fetched, the history file is not read and not written, nothing is
   published. *)
C6_NoWebhookNoAction ==
    WEBHOOK_URL \in {None, ""}
        => /\ pc \in {"main", "returned"}
           /\ trace = <<>>
           /\ posts = <<>>
           /\ historyFile = file_before
           /\ pc = "returned" => printed = <<"No Webhook URL found.">>

C6_Witness ==
    /\ WEBHOOK_URL = None
    /\ pc = "returned"
    /\ historyFile.exists

(* C7: the digest has one section per type that has an item and none for a
   type without; a section shows exactly the items of its type in their
   order in the list; the sections come in the order News, Models, Papers. *)
C7_TypePartitioning ==
    \A k \in DOMAIN posts :
        LET fields == posts[k].json.embeds[1].fields
            rank(j) == CHOOSE r \in 1..3 : SectionNames[r] = fields[j].name
        IN  /\ \A j \in DOMAIN fields : \E r \in 1..3 : SectionNames[r] = fields[j].name
            /\ \A r \in 1..3 :
                  LET of == IndicesOfType(new_items, SectionTypes[r])
                      at == {j \in DOMAIN fields : fields[j].name = SectionNames[r]}
                  IN  /\ Cardinality(at) = (IF of = {} THEN 0 ELSE 1)
                      /\ \A j \in at :
                            /\ Len(fields[j].value) = Cardinality(of)
                            /\ \A x \in 1..Cardinality(of) :
                                  Shown(SectionTypes[r], fields[j].value[x])
                                    = Shown(SectionTypes[r], Pick(new_items, of)[x])
            /\ \A i, j \in DOMAIN fields : i < j => rank(i) < rank(j)

C7_Witness ==
    /\ Len(posts) = 1
    /\ Len(posts[1].json.embeds[1].fields) = 3
    /\ new_items[1].type = "Paper"
    /\ Cardinality(IndicesOfType(new_items, "News")) >= 2

(* C8, as claimed: a run with new items that returns has rewritten the
   history file once, after the publish call, and the file holds the loaded
   history and every new id. *)
C8_SavedIsUnion ==
    (pc = "returned" /\ Filtered /\ new_items # <<>>)
        => /\ Count(trace, "save_history") = 1
           /\ trace[Len(trace)] = "save_history"
           /\ historyFile = File(Union(history, ItemIds(new_items)))

(* C8, amended: a run with new items writes the history file at most once,
   and only after a publish call that returned; what it writes is
   min(1000, n) of the n ids of the loaded history and the new ids together
   (all of them when n <= 1000); when the publish call raises, the file is
   left as it was. *)
C8_SavedIsCappedUnion ==
    (Ended /\ Filtered /\ new_items # <<>>)
        => LET union == Union(history, ItemIds(new_items))
               saved == historyFile.content
           IN  IF post_outcome = "ConnectionError"
               THEN "save_history" \notin Ops(trace) /\ historyFile = file_before
               ELSE /\ Count(trace, "save_history") = 1
                    /\ Count(trace, "requests.post") = 1
                    /\ trace[Len(trace)] = "save_history"
                    /\ trace[Len(trace) - 1] = "requests.post"
                    /\ historyFile.exists
                    /\ saved.ids \subseteq union.ids
                    /\ saved.others <= union.others
                    /\ Size(saved) = Min(1000, Size(union))
                    /\ Size(union) <= 1000 => saved = union

C8_Witness ==
    /\ pc = "returned"
    /\ "save_history" \in Ops(trace)
    /\ history.ids # {}
    /\ ItemIds(new_items) \ history.ids # {}
    /\ historyFile.content.ids = history.ids \cup ItemIds(new_items)
    /\ Size(historyFile.content) < 1000

(* C9: candidates is the papers, then the models, then the news; new_items
   is the candidates whose id is not in the loaded history, in candidate
   order; what is published is built from new_items alone. *)
C9_NewItemsAreUnseenCandidates ==
    Filtered
        => /\ Len(candidates) = Len(papers) + Len(models) + Len(news)
           /\ \A i \in DOMAIN papers : candidates[i] = papers[i]
           /\ \A i \in DOMAIN models : candidates[Len(papers) + i] = models[i]
           /\ \A i \in DOMAIN news :
                 candidates[Len(papers) + Len(models) + i] = news[i]
           /\ new_items = Pick(candidates, UnseenIndices)
           /\ \A i \in DOMAIN new_items : new_items[i].id \notin history.ids
           /\ \A k \in DOMAIN posts :
                 posts[k].json = Payload(Pick(candidates, UnseenIndices))

C9_Witness ==
    /\ Filtered
    /\ papers # <<>> /\ models # <<>> /\ Len(news) >= 2
    /\ posts # <<>>
    /\ UnseenIndices # {}
    /\ \E i, j \in DOMAIN candidates :
          /\ i < j
          /\ candidates[i].id \in history.ids
          /\ candidates[j].id \notin history.ids

(* C10: get_trending_models returns the first min(5, k) of the k candidates
   that have a last-modified timestamp less than 2 days old, in the order
   of the listing, and never a candidate 2 or more days old. *)
C10_FirstFiveRecent ==
    pc = "returned"
        => LET recent == {i \in DOMAIN listing :
                            /\ listing[i].lastModified # NoDate
                            /\ listing[i].lastModified[1] < 2 * 24}
               first == Pick(listing, recent)
               n == IF Cardinality(recent) < 5 THEN Cardinality(recent) ELSE 5
           IN  /\ Len(result) = n
               /\ \A k \in 1..n :
                     /\ result[k].id = first[k].modelId
                     /\ result[k].likes = first[k].likes
                     /\ result[k].type = "Model"

C10_Witness ==
    /\ pc = "returned"
    /\ Len(result) = 5
    /\ Len(listing) = 6
    /\ listing[1].lastModified = <<48>>
    /\ listing[2].lastModified = <<47>>
    /\ Cardinality({i \in DOMAIN listing : listing[i].lastModified = <<47>>}) = 5

====
